---- MODULE Spec2Model ----
(***************************************************************************)
(* Model of src/transaction.ts: the ClientTransaction session              *)
(* (initialize / generateTransactionId) with its asynchronous suspension   *)
(* points, and the pure byte-level functions that build the identifier.    *)
(*                                                                         *)
(* Conventions                                                             *)
(*   - a nullable field or an optional argument is a sequence: <<>> is     *)
(*     null / undefined, <<v>> is the value v;                             *)
(*   - a JS string is a sequence of one-character strings; a base64 string *)
(*     is a sequence of alphabet positions 0..63, with Pad for '=';        *)
(*   - JS arrays are 0-based: At(a, i) reads a[i].                         *)
(***************************************************************************)
EXTENDS Integers, Sequences, FiniteSets, Bags, TLC

\* ------------------------------------------------------------------ bounds
\* Number of concurrent callers of the session, each with at most one call
\* of initialize() or generateTransactionId() in flight: the most calls
\* that are suspended at an await at any one time.
NumCallers == 2

\* ------------------------------------------------------- program constants
ADDITIONAL_RANDOM_NUMBER == 3
DEFAULT_KEYWORD == "obfiowerehiring"
totalTime == 4096

\* ------------------------------------------------------------ JS numbers
\* An integer-valued JS number n that may exceed the checker's integers is
\* the pair <<hi, lo>> with n = hi * 65536 + lo and 0 <= lo < 65536.
Big(hi, lo) == <<hi, lo>>

Norm(hi, lo) == <<hi + (lo \div 65536), lo % 65536>>

BigSub(a, b) == Norm(a[1] - b[1], a[2] - b[2])

\* Math.floor(a / 1000)
BigFloorDiv1000(a) ==
  LET r == ((a[1] % 1000) * 65536) + a[2]
  IN Norm(a[1] \div 1000, r \div 1000)

\* 1682924400 * 1000 = 25679388 * 65536 + 28032
EpochOffsetMs == Big(25679388, 28032)

\* JS truthiness of an optional number argument (undefined and 0 are falsy)
TruthyNum(o) == o # <<>> /\ o[1] # Big(0, 0)

\* JS truthiness of an optional / nullable string (null, undefined, "" are falsy)
TruthyStr(o) == o # <<>> /\ o[1] # <<>>

\* NaN: the value of undefined % 16 and of every product that has one
\* (real values of both are >= 0).
NaN == -1

\* Position of '=' in the base64 string representation.
Pad == 64

\* ------------------------------------------------------------ JS helpers
Some(v) == <<v>>
None == <<>>

\* a[i] for a 0-based JS array: <<>> when i is out of range (undefined).
At(a, i) == IF i >= 0 /\ i < Len(a) THEN <<a[i + 1]>> ELSE <<>>

\* a.slice(from, to) for 0 <= from <= to.
Slice(a, from, to) ==
  LET hi == IF to < Len(a) THEN to ELSE Len(a)
  IN IF from >= hi THEN <<>> ELSE SubSeq(a, from + 1, hi)

\* (x % m) for x = a[i]: NaN when a[i] is undefined.
ModAt(a, i, m) == IF At(a, i) = <<>> THEN NaN ELSE (At(a, i)[1]) % m

\* num1 * num2 in JS, NaN being contagious.
Times(x, y) == IF x = NaN \/ y = NaN THEN NaN ELSE x * y

\* (n >> s) & 0xff for s in {0, 8, 16, 24}: >> works on ToInt32(n), the low
\* 32 bits of n, of which lo holds bits 0..15 and hi mod 65536 bits 16..31.
ShiftMask(n, s) ==
  IF s < 16 THEN (n[2] \div (2 ^ s)) % 256
  ELSE (n[1] \div (2 ^ (s - 16))) % 256

RECURSIVE BitXor(_, _)
\* a ^ b for a, b >= 0
BitXor(a, b) ==
  IF a = 0 /\ b = 0 THEN 0
  ELSE (((a % 2) + (b % 2)) % 2) + (2 * BitXor(a \div 2, b \div 2))

DigitChars == {"0", "1", "2", "3", "4", "5", "6", "7", "8", "9"}

DigitVal(c) ==
  CASE c = "0" -> 0 [] c = "1" -> 1 [] c = "2" -> 2 [] c = "3" -> 3
    [] c = "4" -> 4 [] c = "5" -> 5 [] c = "6" -> 6 [] c = "7" -> 7
    [] c = "8" -> 8 [] c = "9" -> 9

RECURSIVE ParseIntFrom(_, _)
ParseIntFrom(acc, s) ==
  IF s = <<>> THEN acc ELSE ParseIntFrom((acc * 10) + DigitVal(Head(s)), Tail(s))

\* parseInt(str, 10) of a non-empty string of digits
ParseInt(s) == ParseIntFrom(0, s)

\* ----------------------------------------------------------------- base64
RECURSIVE encodeBase64(_)
\* encodeBase64(bytes): standard alphabet, padded
encodeBase64(b) ==
  IF Len(b) = 0 THEN <<>>
  ELSE IF Len(b) = 1 THEN
    <<b[1] \div 4, (b[1] % 4) * 16, Pad, Pad>>
  ELSE IF Len(b) = 2 THEN
    <<b[1] \div 4, ((b[1] % 4) * 16) + (b[2] \div 16), (b[2] % 16) * 4, Pad>>
  ELSE
    <<b[1] \div 4, ((b[1] % 4) * 16) + (b[2] \div 16),
      ((b[2] % 16) * 4) + (b[3] \div 64), b[3] % 64>>
      \o encodeBase64(SubSeq(b, 4, Len(b)))

\* str.replace(/=/g, "")
StripPad(s) == SelectSeq(s, LAMBDA c : c # Pad)

\* decodeBase64 throws on a string whose data length is 1 mod 4
ValidBase64(s) == Len(StripPad(s)) % 4 # 1

RECURSIVE DecodeSextets(_)
DecodeSextets(s) ==
  IF Len(s) < 2 THEN <<>>
  ELSE IF Len(s) = 2 THEN
    <<(s[1] * 4) + (s[2] \div 16)>>
  ELSE IF Len(s) = 3 THEN
    <<(s[1] * 4) + (s[2] \div 16), ((s[2] % 16) * 16) + (s[3] \div 4)>>
  ELSE
    <<(s[1] * 4) + (s[2] \div 16), ((s[2] % 16) * 16) + (s[3] \div 4),
      ((s[3] % 4) * 64) + s[4]>> \o DecodeSextets(SubSeq(s, 5, Len(s)))

\* decodeBase64(str) of a valid string
decodeBase64(s) == DecodeSextets(StripPad(s))

\* getKeyBytes(key): Array.from(decodeBase64(key)); ok = FALSE when it throws
getKeyBytes(k) ==
  IF ValidBase64(k) THEN [ok |-> TRUE, v |-> decodeBase64(k), err |-> ""]
  ELSE [ok |-> FALSE, v |-> <<>>, err |-> "DecodeError"]

\* ------------------------------------------------------- input documents
\* A Document is [marker, content, frames]:
\*   marker   ON_DEMAND_FILE_REGEX matches documentElement.outerHTML
\*   content  the content attribute of [name='twitter-site-verification'],
\*            "" when the element or the attribute is absent
\*   frames   the elements matching [id^='loading-x-anim'], each [path, d]:
\*            path  the element has children[0].children[1]
\*            d     that element's "d" attribute, <<>> when it has none
DigitChar(d) ==
  CASE d = 0 -> "0" [] d = 1 -> "1" [] d = 2 -> "2" [] d = 3 -> "3"
    [] d = 4 -> "4" [] d = 5 -> "5" [] d = 6 -> "6" [] d = 7 -> "7"
    [] d = 8 -> "8" [] d = 9 -> "9"

RECURSIVE NumText(_)
NumText(n) ==
  IF n < 10 THEN <<DigitChar(n)>> ELSE NumText(n \div 10) \o <<DigitChar(n % 10)>>

RECURSIVE RowText(_)
\* the numbers of a curve segment, written " n,n n,n ..."
RowText(row) ==
  IF row = <<>> THEN <<>>
  ELSE IF Len(row) = 1 THEN <<" ">> \o NumText(row[1])
  ELSE <<" ">> \o NumText(row[1]) \o <<",">> \o NumText(row[2])
         \o RowText(SubSeq(row, 3, Len(row)))

RECURSIVE PathText(_)
\* curve segments joined by the "C" command
PathText(rows) ==
  IF rows = <<>> THEN <<>>
  ELSE IF Len(rows) = 1 THEN RowText(rows[1])
  ELSE RowText(rows[1]) \o <<" ", "C">> \o PathText(Tail(rows))

\* "M 10,30 C": the 9 characters that open a path
PathPreamble == <<"M", " ", "1", "0", ",", "3", "0", " ", "C">>

\* path data with four curve segments of 11, 7, 3 and 0 numbers
GoodPath ==
  PathPreamble \o PathText(<<
    <<10, 20, 30, 40, 50, 60, 128, 5, 6, 7, 8>>,
    <<1, 2, 3, 4, 5, 6, 7>>,
    <<9, 9, 9>>,
    <<>> >>)

GoodFrame == [path |-> TRUE, d |-> Some(GoodPath)]
NoDFrame == [path |-> TRUE, d |-> None]

GoodKey == encodeBase64(<<0, 1, 2, 3, 20, 8, 33>>)
OtherKey == encodeBase64(<<16, 17, 18, 19, 4, 1, 7, 7>>)
\* one character: not decodable
BadKey == <<0>>

DocNames == {"good", "other", "noMarker", "noKey", "noFrames", "noD", "oneFrame"}

\* the documents a session is constructed with
SessionDocs == DocNames \ {"other"}

Document(name) ==
  CASE name = "good" ->
         [marker |-> TRUE, content |-> GoodKey,
          frames |-> <<GoodFrame, GoodFrame, GoodFrame, GoodFrame>>]
    [] name = "other" ->
         [marker |-> TRUE, content |-> OtherKey,
          frames |-> <<GoodFrame, GoodFrame, GoodFrame, GoodFrame>>]
    [] name = "noMarker" ->
         [marker |-> FALSE, content |-> GoodKey,
          frames |-> <<GoodFrame, GoodFrame, GoodFrame, GoodFrame>>]
    [] name = "noKey" ->
         [marker |-> TRUE, content |-> <<>>,
          frames |-> <<GoodFrame, GoodFrame, GoodFrame, GoodFrame>>]
    [] name = "noFrames" ->
         [marker |-> TRUE, content |-> GoodKey, frames |-> <<>>]
    [] name = "noD" ->
         [marker |-> TRUE, content |-> GoodKey,
          frames |-> <<NoDFrame, NoDFrame, NoDFrame, NoDFrame>>]
    [] name = "oneFrame" ->
         [marker |-> TRUE, content |-> OtherKey, frames |-> <<GoodFrame>>]

\* Texts of the auxiliary script (one is served for a session's lifetime), each as the list of the digit strings
\* INDICES_REGEX captures in it, in order of appearance.
Scripts == {
  << <<"0">>, <<"1">>, <<"2">> >>,
  << <<"1">>, <<"5">> >>,
  << <<"0">>, <<"1", "2">> >>,
  << <<"4">> >>,
  << <<"1", "2">> >>,
  << >> }

\* ------------------------------------------------------------- extraction
\* getKey(response): ok = FALSE when it throws
getKey(response) ==
  LET content == Document(response).content
  IN IF content = <<>>
     THEN [ok |-> FALSE, v |-> <<>>, err |-> "KeyNotFound"]
     ELSE [ok |-> TRUE, v |-> content, err |-> ""]

\* getFrames(response)
getFrames(response) == Document(response).frames

RECURSIVE SplitFrom(_, _, _)
SplitFrom(cur, s, sep) ==
  IF s = <<>> THEN <<cur>>
  ELSE IF Head(s) = sep THEN <<cur>> \o SplitFrom(<<>>, Tail(s), sep)
  ELSE SplitFrom(Append(cur, Head(s)), Tail(s), sep)

\* str.split(sep) for a one-character separator
Split(s, sep) == SplitFrom(<<>>, s, sep)

\* item.replace(/[^\d]+/g, " "): every run of non-digits becomes one space
RECURSIVE Clean(_, _)
Clean(s, inRun) ==
  IF s = <<>> THEN <<>>
  ELSE IF Head(s) \in DigitChars THEN <<Head(s)>> \o Clean(Tail(s), FALSE)
  ELSE IF inRun THEN Clean(Tail(s), TRUE)
  ELSE <<" ">> \o Clean(Tail(s), TRUE)

\* str.trim() of a string whose only blanks are single spaces
Trim(s) ==
  LET a == IF s # <<>> /\ Head(s) = " " THEN Tail(s) ELSE s
  IN IF a # <<>> /\ a[Len(a)] = " " THEN SubSeq(a, 1, Len(a) - 1) ELSE a

\* one segment of the path data to its row of integers
ParseItem(item) ==
  LET cleaned == Trim(Clean(item, FALSE))
      parts == IF cleaned = <<>> THEN <<>> ELSE Split(cleaned, " ")
  IN [i \in 1..Len(parts) |-> ParseInt(parts[i])]

\* get2dArray(keyBytes, response): ok = FALSE when it throws (a TypeError on
\* frames[NaN], on a frame index past the end, or on a frame without the
\* nested path element)
get2dArray(kb, response) ==
  LET frames == getFrames(response)
      f == ModAt(kb, 5, 4)
      frame == At(frames, f)
  IN IF frames = <<>> THEN [ok |-> TRUE, v |-> << <<>> >>, err |-> ""]
     ELSE IF frame = <<>> \/ ~frame[1].path
       THEN [ok |-> FALSE, v |-> <<>>, err |-> "TypeError"]
     ELSE IF frame[1].d = <<>> THEN [ok |-> TRUE, v |-> <<>>, err |-> ""]
     ELSE LET items == Split(SubSeq(frame[1].d[1], 10, Len(frame[1].d[1])), "C")
          IN [ok |-> TRUE,
              v |-> [i \in 1..Len(items) |-> ParseItem(items[i])],
              err |-> ""]

\* interpolate(fromList, toList, f) of ./interpolate.ts accepts only lists
\* of equal length
interpolateAccepts(fromList, toList) == Len(fromList) = Len(toList)

\* animate(frames, targetTime), targetTime being the fraction
\* <<frameTime, totalTime>>.  The hex string it returns is represented by the
\* values it is computed from: the numerator of targetTime (NaN when it is
\* NaN) followed by the frame row.
animate(frames, targetTime) ==
  LET fromColor == Slice(frames, 0, 3) \o <<1>>
      toColor == Slice(frames, 3, 6) \o <<1>>
  IN IF interpolateAccepts(fromColor, toColor)
     THEN [ok |-> TRUE, v |-> <<targetTime[1]>> \o frames, err |-> ""]
     ELSE [ok |-> FALSE, v |-> <<>>, err |-> "MismatchedInterpolation"]

RECURSIVE Reduce(_, _, _)
\* indices.reduce((num1, num2) => num1 * (keyBytes[num2] % 16), acc)
Reduce(indices, kb, acc) ==
  IF indices = <<>> THEN acc
  ELSE Reduce(Tail(indices), kb, Times(acc, ModAt(kb, Head(indices), 16)))

\* Math.round(x / 10) * 10 for x >= 0 or NaN
RoundToTen(x) == IF x = NaN THEN NaN ELSE ((x + 5) \div 10) * 10

\* getAnimationKey(keyBytes, response) with this.DEFAULT_ROW_INDEX = rowIdx
\* and this.DEFAULT_KEY_BYTES_INDICES = keyIdx (both nullable)
getAnimationKey(kb, response, rowIdx, keyIdx) ==
  IF rowIdx = <<>> \/ keyIdx = <<>>
  THEN [ok |-> FALSE, v |-> <<>>, err |-> "IndicesNotInitialized"]
  ELSE
    LET rowIndex == ModAt(kb, rowIdx[1], 16)
        frameTime == RoundToTen(Reduce(keyIdx[1], kb, 1))
        arr == get2dArray(kb, response)
    IN IF ~arr.ok THEN arr
       ELSE IF rowIndex = NaN \/ At(arr.v, rowIndex) = <<>>
         THEN [ok |-> FALSE, v |-> <<>>, err |-> "InvalidFrameData"]
       ELSE animate(At(arr.v, rowIndex)[1], <<frameTime, totalTime>>)

\* ----------------------------------------------------- identifier bytes
Methods == {"GET"}
Paths == {"/1.1/jot/client_event.json"}

StrCode(str) ==
  CASE str = "GET" -> 224 [] str = "POST" -> 326
    [] str = "/1.1/jot/client_event.json" -> 71
    [] str = DEFAULT_KEYWORD -> 157

RECURSIVE Sum(_)
Sum(q) == IF q = <<>> THEN 0 ELSE (Head(q) % 256) + Sum(Tail(q))

\* crypto.subtle.digest("SHA-256", encode(data)): the 32 digest bytes, a
\* deterministic function of the message
\*   data = `${method}!${path}!${timeNow}${DEFAULT_KEYWORD}${animationKey}`
Sha256(method, path, timeNow, animKey) ==
  LET seed == StrCode(method) + StrCode(path) + (timeNow[1] % 251) + timeNow[2]
                + StrCode(DEFAULT_KEYWORD) + Sum(animKey) + Len(animKey)
  IN [i \in 1..32 |-> ((seed * ((2 * i) + 1)) + (7 * i)) % 256]

\* [timeNow & 0xff, (timeNow >> 8) & 0xff, (timeNow >> 16) & 0xff,
\*  (timeNow >> 24) & 0xff]
timeNowBytes(timeNow) ==
  <<ShiftMask(timeNow, 0), ShiftMask(timeNow, 8),
    ShiftMask(timeNow, 16), ShiftMask(timeNow, 24)>>

\* timeNow || Math.floor((Date.now() - 1682924400 * 1000) / 1000)
ResolveTime(timeO, nowMillis) ==
  IF TruthyNum(timeO) THEN timeO[1]
  ELSE BigFloorDiv1000(BigSub(nowMillis, EpochOffsetMs))

\* [...keyBytes, ...timeNowBytes, ...hashBytes.slice(0, 16),
\*  ADDITIONAL_RANDOM_NUMBER]
bytesArr(kb, timeNow, hashBytes) ==
  kb \o timeNowBytes(timeNow) \o Slice(hashBytes, 0, 16)
     \o <<ADDITIONAL_RANDOM_NUMBER>>

\* mutant: the mask byte is XOR-ed along with the payload
OutBytesMaskAll(randomNum, arr) ==
  [i \in 1..(Len(arr) + 1) |->
     BitXor((<<randomNum>> \o arr)[i], randomNum) % 256]

\* new Uint8Array([randomNum, ...bytesArr.map((item) => item ^ randomNum)])
OutBytes(randomNum, arr) ==
  <<randomNum % 256>> \o [i \in 1..Len(arr) |-> BitXor(arr[i], randomNum) % 256]

\* encodeBase64(out).replace(/=/g, "")
TransactionId(randomNum, arr) == StripPad(encodeBase64(OutBytes(randomNum, arr)))

\* --------------------------------------------------------------- inputs
\* values of Date.now(): 1000.999 s after the epoch offset
Clock == {Big(25679403, 45991)}
\* time overrides: none, 0, 2^32 - 1
TimeOverrides == {None, Some(Big(0, 0)), Some(Big(65535, 65535))}
KeyOverrides == {None, Some(OtherKey), Some(BadKey)}
AnimationKeyOverrides == {None, Some(<<7, 7>>)}
DocOverrides == {None, Some("other")}
\* values of Math.floor(Math.random() * 256)
RandomBytes == {0, 66, 255}
\* outcomes of fetch(onDemandFileUrl)
FetchOutcomes == {"ok", "notOk", "rejected"}

\* ---------------------------------------------------------------- state
VARIABLES
  homePageDocument,           \* the constructor's document
  onDemandFile,               \* the text served at onDemandFileUrl
  DEFAULT_ROW_INDEX,          \* number | null
  DEFAULT_KEY_BYTES_INDICES,  \* number[] | null
  key,                        \* string | null
  keyBytes,                   \* number[] | null
  animationKey,               \* string | null
  isInitialized,              \* boolean
  calls,                      \* the calls suspended at an await (a bag of frames)
  ev                          \* what the last step did (history)

session == <<DEFAULT_ROW_INDEX, DEFAULT_KEY_BYTES_INDICES, key, keyBytes,
             animationKey, isInitialized>>

vars == <<homePageDocument, onDemandFile, DEFAULT_ROW_INDEX,
          DEFAULT_KEY_BYTES_INDICES, key, keyBytes, animationKey,
          isInitialized, calls, ev>>

\* The frame of a suspended call: pc is the await it is suspended at
\* ("fetch", "text", "resume" in initialize / getIndices, "digest" in
\* generateTransactionId), the other fields are its live locals.
Frame(at) == [pc |-> at, indices |-> <<>>, timeNow |-> Big(0, 0),
              keyBytes |-> <<>>, hashBytes |-> <<>>]

NoEv == [op |-> "none", outcome |-> "", err |-> "", ready |-> FALSE,
         docO |-> <<>>, keyO |-> <<>>, akO |-> <<>>, timeO |-> <<>>,
         timeNow |-> Big(0, 0), keyBytes |-> <<>>, animationKey |-> <<>>,
         hashBytes |-> <<>>, randomNum |-> 0, out |-> <<>>]

\* the suspended frames
Suspended == BagToSet(calls)

\* a caller is free to start a call
CallerFree == BagCardinality(calls) < NumCallers

\* pc values of an initialize() call that has not completed
InitPcs == {"fetch", "text", "resume"}

\* number of initialize() calls in flight
InFlight ==
  BagCardinality([f \in {g \in Suspended : g.pc \in InitPcs} |-> calls[f]])

Init ==
  /\ homePageDocument \in SessionDocs
  /\ onDemandFile \in Scripts
  /\ DEFAULT_ROW_INDEX = <<>>
  /\ DEFAULT_KEY_BYTES_INDICES = <<>>
  /\ key = <<>>
  /\ keyBytes = <<>>
  /\ animationKey = <<>>
  /\ isInitialized = FALSE
  /\ calls = EmptyBag
  /\ ev = NoEv

\* a call suspends in frame g / the call of frame f moves on to frame g /
\* the call of frame f ends
Suspend(g) == calls' = calls (+) SetToBag({g})
Continue(f, g) == calls' = (calls (-) SetToBag({f})) (+) SetToBag({g})
End(f) == calls' = calls (-) SetToBag({f})

\* ------------------------------------------------------------ initialize
\* mutant: the early return of line 48 left out
GuardOmitted == FALSE

\* line 48: if (this.isInitialized) return;
AlreadyInitialized == isInitialized

\* an initialize() call ends with an error (lines 70-73)
InitFails(op, err) ==
  ev' = [NoEv EXCEPT !.op = op, !.outcome = "failed", !.err = err,
                     !.ready = isInitialized]

\* initialize() is called: it returns at once when the session is
\* initialized; otherwise getIndices runs up to its fetch, or throws when
\* ON_DEMAND_FILE_REGEX does not match the markup.
initialize ==
  /\ CallerFree
  /\ UNCHANGED <<homePageDocument, onDemandFile, session>>
  /\ IF AlreadyInitialized
     THEN /\ UNCHANGED calls
          /\ ev' = [NoEv EXCEPT !.op = "initialize", !.outcome = "noop",
                                !.ready = isInitialized]
     ELSE IF Document(homePageDocument).marker
     THEN /\ Suspend(Frame("fetch"))
          /\ ev' = [NoEv EXCEPT !.op = "initialize", !.outcome = "suspended",
                                !.ready = isInitialized]
     ELSE /\ UNCHANGED calls
          /\ InitFails("initialize", "IndicesNotFound")

\* await fetch(onDemandFileUrl) returns: a rejection or a response that is
\* not ok is caught and logged, which leaves keyByteIndices empty.
fetchReturns(f) ==
  /\ f.pc = "fetch"
  /\ UNCHANGED <<homePageDocument, onDemandFile, session>>
  /\ \E r \in FetchOutcomes :
       IF r = "ok"
       THEN /\ Continue(f, Frame("text"))
            /\ ev' = [NoEv EXCEPT !.op = "fetch", !.outcome = "suspended",
                                  !.ready = isInitialized]
       ELSE /\ End(f)
            /\ InitFails("fetch", "IndicesNotFound")

\* numericIndices of a script text: parseInt of every INDICES_REGEX capture
numericIndices(text) == [i \in 1..Len(text) |-> ParseInt(text[i])]

\* await onDemandFileResponse.text() returns: getIndices collects the
\* matches and throws when there are none, else returns
\* [numericIndices[0], numericIndices.slice(1)] to the awaiting initialize.
textReturns(f) ==
  /\ f.pc = "text"
  /\ UNCHANGED <<homePageDocument, onDemandFile, session>>
  /\ IF Len(onDemandFile) = 0
     THEN /\ End(f)
          /\ InitFails("text", "IndicesNotFound")
     ELSE /\ Continue(f, [Frame("resume") EXCEPT
                            !.indices = numericIndices(onDemandFile)])
          /\ ev' = [NoEv EXCEPT !.op = "text", !.outcome = "suspended",
                                !.ready = isInitialized]

\* the outcome of lines 56-69 given the results k of getKey, kb of
\* getKeyBytes and ak of getAnimationKey: a field is assigned only if every
\* step up to its own succeeded
Extracted(k, kb, ak) ==
  [ok |-> ak.ok, err |-> ak.err,
   key |-> IF k.ok THEN Some(k.v) ELSE None,
   keyBytes |-> IF kb.ok THEN Some(kb.v) ELSE None,
   animationKey |-> IF ak.ok THEN Some(ak.v) ELSE None]

\* lines 63-66: this.getAnimationKey(this.keyBytes, this.homePageDocument)
ExtractAnimationKey(k, kb, response, rowIdx, keyIdx) ==
  Extracted(k, kb,
            IF kb.ok THEN getAnimationKey(kb.v, response, rowIdx, keyIdx) ELSE kb)

\* line 60: this.keyBytes = this.getKeyBytes(this.key)
ExtractKeyBytes(k, response, rowIdx, keyIdx) ==
  ExtractAnimationKey(k, IF k.ok THEN getKeyBytes(k.v) ELSE k,
                      response, rowIdx, keyIdx)

\* lines 56-66 on the document, with the indices getIndices returned
Extract(response, rowIdx, keyIdx) ==
  ExtractKeyBytes(getKey(response), response, rowIdx, keyIdx)

\* the assignments of lines 52-69 and the end of the call, x = Extract(...)
Assign(ni, x) ==
  /\ DEFAULT_ROW_INDEX' = Some(Head(ni))
  /\ DEFAULT_KEY_BYTES_INDICES' = Some(Tail(ni))
  /\ key' = IF x.key # None THEN x.key ELSE key
  /\ keyBytes' = IF x.keyBytes # None THEN x.keyBytes ELSE keyBytes
  /\ animationKey' = IF x.ok THEN x.animationKey ELSE animationKey
  /\ isInitialized' = IF x.ok THEN TRUE ELSE isInitialized
  /\ IF x.ok
     THEN ev' = [NoEv EXCEPT !.op = "resume", !.outcome = "ready",
                             !.ready = isInitialized]
     ELSE InitFails("resume", x.err)

\* initialize() resumes with the result of getIndices (lines 52-69)
initializeResumes(f) ==
  /\ f.pc = "resume"
  /\ Assign(f.indices,
            Extract(homePageDocument, Some(Head(f.indices)),
                    Some(Tail(f.indices))))
  /\ End(f)
  /\ UNCHANGED <<homePageDocument, onDemandFile>>

\* -------------------------------------------------- generateTransactionId
\* mutant: the guard tests the cached key instead of the flag
NotInitializedByKey == key = None

\* line 350: if (!this.isInitialized) throw ...
NotInitialized == ~isInitialized

\* response || this.homePageDocument
DocOr(docO) == IF docO = None THEN homePageDocument ELSE docO[1]

\* mutant: a supplied document takes precedence over the cached key
ResolveKeyDocFirst(keyO, docO) ==
  IF TruthyStr(keyO) THEN [ok |-> TRUE, v |-> keyO[1], err |-> ""]
  ELSE IF docO # None THEN getKey(docO[1])
  ELSE IF TruthyStr(key) THEN [ok |-> TRUE, v |-> key[1], err |-> ""]
  ELSE getKey(homePageDocument)

\* line 364: key = key || this.key || this.getKey(response)
ResolveKey(keyO, docO) ==
  IF TruthyStr(keyO) THEN [ok |-> TRUE, v |-> keyO[1], err |-> ""]
  ELSE IF TruthyStr(key) THEN [ok |-> TRUE, v |-> key[1], err |-> ""]
  ELSE getKey(DocOr(docO))

\* lines 365-367: key ? this.getKeyBytes(key) : this.keyBytes || this.getKeyBytes(key)
ResolveKeyBytes(k) ==
  IF k # <<>> THEN getKeyBytes(k)
  ELSE IF keyBytes # None THEN [ok |-> TRUE, v |-> keyBytes[1], err |-> ""]
  ELSE getKeyBytes(k)

\* lines 368-371: animationKey || this.animationKey || this.getAnimationKey(keyBytes, response)
ResolveAnimationKey(akO, kb, docO) ==
  IF TruthyStr(akO) THEN [ok |-> TRUE, v |-> akO[1], err |-> ""]
  ELSE IF TruthyStr(animationKey) THEN [ok |-> TRUE, v |-> animationKey[1], err |-> ""]
  ELSE getAnimationKey(kb, DocOr(docO), DEFAULT_ROW_INDEX, DEFAULT_KEY_BYTES_INDICES)

\* the values lines 364-371 leave in key bytes and animation key, or the
\* error thrown on the way
Resolved(kb, ak) ==
  [ok |-> ak.ok, err |-> ak.err, keyBytes |-> kb.v, animationKey |-> ak.v]

ResolveFromKeyBytes(kb, akO, docO) ==
  Resolved(kb, IF kb.ok THEN ResolveAnimationKey(akO, kb.v, docO) ELSE kb)

ResolveFromKey(k, akO, docO) ==
  ResolveFromKeyBytes(IF k.ok THEN ResolveKeyBytes(k.v) ELSE k, akO, docO)

Resolve(docO, keyO, akO) == ResolveFromKey(ResolveKey(keyO, docO), akO, docO)

\* the frame of a call suspended at the await of the digest
DigestFrame(method, path, timeNow, r) ==
  [Frame("digest") EXCEPT !.timeNow = timeNow, !.keyBytes = r.keyBytes,
                          !.hashBytes = Sha256(method, path, timeNow,
                                               r.animationKey)]

\* mutant: the values resolved for the call are written back to the cache
GenerateWithWriteBack(call, method, path, timeNow, r) ==
  IF ~isInitialized
  THEN /\ UNCHANGED <<session, calls>>
       /\ ev' = [call EXCEPT !.outcome = "failed", !.err = "NotInitialized"]
  ELSE IF ~r.ok
  THEN /\ UNCHANGED <<session, calls>>
       /\ ev' = [call EXCEPT !.outcome = "failed", !.err = r.err,
                             !.timeNow = timeNow]
  ELSE /\ keyBytes' = Some(r.keyBytes)
       /\ animationKey' = Some(r.animationKey)
       /\ UNCHANGED <<DEFAULT_ROW_INDEX, DEFAULT_KEY_BYTES_INDICES, key,
                      isInitialized>>
       /\ Suspend(DigestFrame(method, path, timeNow, r))
       /\ ev' = [call EXCEPT !.outcome = "suspended", !.timeNow = timeNow,
                             !.keyBytes = r.keyBytes,
                             !.animationKey = r.animationKey]

\* the call with arguments recorded in `call`, timeNow as resolved at line
\* 356 and r = Resolve(...): throws, or suspends at the await of the digest
GenerateWith(call, method, path, timeNow, r) ==
  IF NotInitialized
  THEN /\ UNCHANGED <<session, calls>>
       /\ ev' = [call EXCEPT !.outcome = "failed", !.err = "NotInitialized"]
  ELSE IF ~r.ok
  THEN /\ UNCHANGED <<session, calls>>
       /\ ev' = [call EXCEPT !.outcome = "failed", !.err = r.err,
                             !.timeNow = timeNow]
  ELSE /\ UNCHANGED session
       /\ Suspend(DigestFrame(method, path, timeNow, r))
       /\ ev' = [call EXCEPT !.outcome = "suspended", !.timeNow = timeNow,
                             !.keyBytes = r.keyBytes,
                             !.animationKey = r.animationKey]

\* generateTransactionId(method, path, response, key, animationKey, timeNow)
\* is called: it throws, or runs up to the await of the digest.
generateTransactionId ==
  /\ CallerFree
  /\ UNCHANGED <<homePageDocument, onDemandFile>>
  /\ \E method \in Methods, path \in Paths, docO \in DocOverrides,
        keyO \in KeyOverrides, akO \in AnimationKeyOverrides,
        timeO \in TimeOverrides, nowMillis \in Clock :
       GenerateWith([NoEv EXCEPT !.op = "generate", !.ready = isInitialized,
                                 !.docO = docO, !.keyO = keyO, !.akO = akO,
                                 !.timeO = timeO],
                    method, path, ResolveTime(timeO, nowMillis),
                    Resolve(docO, keyO, akO))

\* await crypto.subtle.digest(...) returns: the random byte is drawn and
\* the identifier is built and returned (lines 380-394).
digestReturns(f) ==
  /\ f.pc = "digest"
  /\ UNCHANGED <<homePageDocument, onDemandFile, session>>
  /\ End(f)
  /\ \E randomNum \in RandomBytes :
       ev' = [NoEv EXCEPT !.op = "digest", !.outcome = "id",
                          !.ready = isInitialized,
                          !.timeNow = f.timeNow,
                          !.keyBytes = f.keyBytes,
                          !.hashBytes = f.hashBytes,
                          !.randomNum = randomNum,
                          !.out = TransactionId(randomNum,
                                    bytesArr(f.keyBytes, f.timeNow, f.hashBytes))]

Next ==
  \/ initialize
  \/ generateTransactionId
  \/ \E f \in Suspended : fetchReturns(f)
  \/ \E f \in Suspended : textReturns(f)
  \/ \E f \in Suspended : initializeResumes(f)
  \/ \E f \in Suspended : digestReturns(f)

Spec == Init /\ [][Next]_vars

\* ================================================================ claims
InitOps == {"initialize", "fetch", "text", "resume"}
GenerateOps == {"generate", "digest"}

\* C1: whenever generateTransactionId is called on a session that is not
\* initialized (never initialized, an initialize() still in flight, or
\* after a failed initialize()), it throws the not-initialized error
\* whatever its arguments, and no call ever gets past the guard to produce
\* an identifier while the session is not initialized.
C1_NotInitializedRejected ==
  /\ (ev.op = "generate" /\ ~ev.ready) =>
       (ev.outcome = "failed" /\ ev.err = "NotInitialized" /\ ev.out = <<>>)
  /\ \A f \in Suspended : f.pc = "digest" => isInitialized

\* C1 witness: generate is rejected, with overrides supplied, after an
\* initialize() that failed half-way (the key is cached, the flag is not set)
C1_Witness ==
  /\ ev.op = "generate" /\ ~ev.ready /\ ev.err = "NotInitialized"
  /\ ev.keyO # None /\ ev.akO # None /\ ev.docO # None
  /\ key # None /\ ~isInitialized

\* C2: while an initialize() has not completed, a second initialize() does
\* not start extraction work of its own: at most one initialize() call is
\* in flight (at the fetch, at the text read, or about to resume).
C2_SingleInFlightInitialize == InFlight <= 1

\* C3: an initialize() call that starts when the session is initialized is
\* a no-op: it starts no fetch and no extraction (the suspended calls
\* are as before), changes no session field, and returns normally.
C3_InitializeIdempotent ==
  [][(isInitialized /\ ev'.op = "initialize") =>
       (ev'.outcome = "noop" /\ UNCHANGED <<session, calls>>)]_vars

\* C3 witness: initialize() was called on an initialized session
C3_Witness == ev.op = "initialize" /\ ev.ready /\ ev.outcome = "noop"

\* C4: every failure of an initialize() call leaves the session not
\* initialized, and an initialize() that resumes with indices ends
\* initialized exactly when the extraction on the document succeeds.
C4_FailureLeavesNotReady ==
  /\ (ev.op \in InitOps /\ ev.outcome = "failed") => ~isInitialized
  /\ (ev.op = "resume" /\ ev.outcome = "ready") => isInitialized

\* the low 32 bits of timeNow that the four bytes b spell, little-endian
DecodesTo(b, timeNow) ==
  /\ b[1] + (256 * b[2]) = timeNow[2]
  /\ b[3] + (256 * b[4]) = timeNow[1] % 65536

\* bytes[1..] each XOR-ed with bytes[0]
Unmask(bytes) == [i \in 1..(Len(bytes) - 1) |-> BitXor(bytes[i + 1], bytes[1])]

\* C5: the bytes encoded in a returned identifier are the mask followed by
\* the payload XOR-ed with the mask: undoing the XOR gives back
\* keyBytes ++ timeBytes ++ digest[0:16] ++ [3], with timeBytes the 4
\* little-endian bytes of timeNow's low 32 bits, and the length is
\* 1 + len(keyBytes) + 4 + 16 + 1.
C5_XorRoundTrip ==
  ev.op = "digest" =>
    LET bytes == decodeBase64(ev.out)
        n == Len(ev.keyBytes)
    IN /\ Len(bytes) = 1 + n + 4 + 16 + 1
       /\ bytes[1] = ev.randomNum
       /\ SubSeq(Unmask(bytes), 1, n) = ev.keyBytes
       /\ DecodesTo(SubSeq(Unmask(bytes), n + 1, n + 4), ev.timeNow)
       /\ SubSeq(Unmask(bytes), n + 5, n + 20) = SubSeq(ev.hashBytes, 1, 16)
       /\ Unmask(bytes)[n + 21] = 3

\* C5 witness: an identifier was built with mask 0x42 from an 8-byte key
\* and the time 2^32 - 1
C5_Witness ==
  /\ ev.op = "digest" /\ ev.randomNum = 66
  /\ Len(ev.keyBytes) = 8 /\ ev.timeNow = Big(65535, 65535)

\* a generate call on an initialized session with a document override and
\* neither a key nor an animation-key override
DocOverrideOnly ==
  /\ ev.op = "generate" /\ ev.ready
  /\ ev.docO # None /\ ev.keyO = None /\ ev.akO = None

C7_GenerateLeavesSession ==
  [][/\ ev'.op \in GenerateOps => UNCHANGED session
     /\ session' # session => ev'.op = "resume"]_vars

\* C7 witness: a generate call with a key override failed on an initialized
\* session while another generate call, with overridden key bytes, was
\* suspended at its digest
C7_Witness ==
  /\ ev.op = "generate" /\ ev.ready /\ ev.outcome = "failed" /\ ev.keyO # None
  /\ \E f \in Suspended : f.pc = "digest" /\ Some(f.keyBytes) # keyBytes

\* C8: when a time override is supplied, the timeNow of the call (hashed
\* and encoded) is the override, for every override including 0.
C8_TimeOverrideUsed ==
  (ev.op = "generate" /\ ev.ready /\ ev.timeO # None) => ev.timeNow = ev.timeO[1]

\* C9: in every initialized session the row index and every key-byte index
\* are positions of the cached key bytes, and the row selector
\* keyBytes[rowIndex] mod 16 is in [0,16).
C9_IndicesCovered ==
  isInitialized =>
    /\ DEFAULT_ROW_INDEX[1] < Len(keyBytes[1])
    /\ \A i \in 1..Len(DEFAULT_KEY_BYTES_INDICES[1]) :
         DEFAULT_KEY_BYTES_INDICES[1][i] < Len(keyBytes[1])
    /\ ModAt(keyBytes[1], DEFAULT_ROW_INDEX[1], 16) \in 0..15

\* the frame row of the session's document that the cached indices select
SelectedRow ==
  At(get2dArray(keyBytes[1], homePageDocument).v,
     ModAt(keyBytes[1], DEFAULT_ROW_INDEX[1], 16))

\* C10: a session is initialized only if its document has animation
\* frames and the selected frame row exists and has at least 8 entries.
C10_FrameRowValid ==
  isInitialized =>
    /\ getFrames(homePageDocument) # <<>>
    /\ SelectedRow # <<>>
    /\ Len(SelectedRow[1]) >= 8

====
